---- MODULE Spec2Model ----
(***************************************************************************)
(* Icon server (Just69Glitch/Icons, version 1.2.1): the in-memory icon     *)
(* cache (IconCache), its rebuild from the icon directory, the filesystem  *)
(* watcher that triggers rebuilds, and the list / asset request handlers.  *)
(*                                                                         *)
(* Strings are sequences of ASCII codes ("a" = 97, "A" = 65, "-" = 45,     *)
(* "." = 46, " " = 32), so that lowercasing, suffix tests, splitting and   *)
(* byte-order sorting are computed as the Go code computes them.  Go       *)
(* slices are sequences; a Go index i is position i+1 of the sequence.     *)
(***************************************************************************)
EXTENDS Integers, Sequences, FiniteSets, TLC

(***************************************************************************)
(* Bounds of the model.                                                    *)
(***************************************************************************)
\* filesystem operations performed on the icon directory in one behaviour
MaxFsOps == 2
\* distinct file contents (1..MaxContent)
MaxContent == 1
\* concurrent request goroutines
NumReaders == 1
\* width in bits of Go's int in the model (64 in the build; the arithmetic
\* of the list query is the same at every width)
IntBits == 15

(***************************************************************************)
(* Program constants.                                                      *)
(***************************************************************************)
\* listHandler: limit := 1000
DefaultLimit == 1000
\* listHandler: page := 1
DefaultPage == 1
\* Search / listIcons: len(query) < 2
MinQueryLen == 2

(***************************************************************************)
(* strings                                                                 *)
(***************************************************************************)
\* ".svg"
DotSvg == <<46, 115, 118, 103>>
\* "-"
Hyphen == 45
\* "/Icons/"
IconsRoot == <<47, 73, 99, 111, 110, 115, 47>>

\* unicode.ToLower on one ASCII byte
LowerByte(b) == IF b \in 65..90 THEN b + 32 ELSE b

\* strings.ToLower
ToLower(s) == [i \in 1..Len(s) |-> LowerByte(s[i])]

\* strings.HasSuffix
HasSuffix(s, suffix) ==
    /\ Len(s) >= Len(suffix)
    /\ SubSeq(s, Len(s) - Len(suffix) + 1, Len(s)) = suffix

\* strings.TrimSuffix
TrimSuffix(s, suffix) ==
    IF HasSuffix(s, suffix) THEN SubSeq(s, 1, Len(s) - Len(suffix)) ELSE s

\* strings.Contains
Contains(s, substr) ==
    \E i \in 1..(Len(s) - Len(substr) + 1) :
        SubSeq(s, i, i + Len(substr) - 1) = substr

\* unicode.IsSpace on one ASCII byte
IsSpace(b) == b \in {9, 10, 11, 12, 13, 32}

\* strings.TrimSpace
RECURSIVE TrimLeft(_)
TrimLeft(s) ==
    IF s # <<>> /\ IsSpace(Head(s)) THEN TrimLeft(Tail(s)) ELSE s

RECURSIVE TrimRight(_)
TrimRight(s) ==
    IF s # <<>> /\ IsSpace(s[Len(s)])
    THEN TrimRight(SubSeq(s, 1, Len(s) - 1))
    ELSE s

TrimSpace(s) == TrimRight(TrimLeft(s))

\* strings.SplitSeq(s, "-"): the pieces between hyphens, empty ones included
RECURSIVE SplitFrom(_, _, _)
SplitFrom(s, i, piece) ==
    IF i > Len(s) THEN <<piece>>
    ELSE IF s[i] = Hyphen THEN <<piece>> \o SplitFrom(s, i + 1, <<>>)
    ELSE SplitFrom(s, i + 1, Append(piece, s[i]))

SplitSeq(s) == SplitFrom(s, 1, <<>>)

\* Go's string comparison a < b: byte-wise lexicographic
RECURSIVE StrLess(_, _)
StrLess(a, b) ==
    IF b = <<>> THEN FALSE
    ELSE IF a = <<>> THEN TRUE
    ELSE IF Head(a) # Head(b) THEN Head(a) < Head(b)
    ELSE StrLess(Tail(a), Tail(b))

\* sort.Strings: insertion of one string into a sorted slice
RECURSIVE InsertSorted(_, _)
InsertSorted(x, sorted) ==
    IF sorted = <<>> THEN <<x>>
    ELSE IF StrLess(Head(sorted), x)
         THEN <<Head(sorted)>> \o InsertSorted(x, Tail(sorted))
         ELSE <<x>> \o sorted

\* sort.Strings
RECURSIVE SortStrings(_)
SortStrings(files) ==
    IF files = <<>> THEN <<>>
    ELSE InsertSorted(Head(files), SortStrings(Tail(files)))

Range(s) == {s[i] : i \in 1..Len(s)}

(***************************************************************************)
(* Go maps are functions; the empty map has the empty domain.              *)
(***************************************************************************)
EmptyMap == [k \in {} |-> 0]

MapPut(m, k, v) == [x \in (DOMAIN m) \cup {k} |-> IF x = k THEN v ELSE m[x]]

(***************************************************************************)
(* File names of the model.                                                *)
(***************************************************************************)
\* "aa-b.svg"
F_aa_b == <<97, 97, 45, 98, 46, 115, 118, 103>>
\* "Aa-aa.svg": an upper-case letter, and the token "aa" twice
F_Aa_aa == <<65, 97, 45, 97, 97, 46, 115, 118, 103>>
\* "ab-cd.svg"
F_ab_cd == <<97, 98, 45, 99, 100, 46, 115, 118, 103>>
\* "B.SVG": the extension in upper case
F_B_SVG == <<66, 46, 83, 86, 71>>
\* "n.txt": not an icon
F_n_txt == <<110, 46, 116, 120, 116>>
\* "d.svg": used as the name of a sub-directory
F_d_svg == <<100, 46, 115, 118, 103>>
\* "c#.svg"
F_c_sharp == <<99, 35, 46, 115, 118, 103>>

(***************************************************************************)
(* The icon directory: a function from the names of the entries present to *)
(* [isDir, content].                                                       *)
(***************************************************************************)
FileEntry(content) == [isDir |-> FALSE, content |-> content]
DirEntry == [isDir |-> TRUE, content |-> 0]

\* the least element of a non-empty set of strings, in byte order
MinStr(S) == CHOOSE x \in S : \A y \in S : y = x \/ StrLess(x, y)

\* fs.ReadDir(os.DirFS(iconDir), "."): the entries, sorted by file name
RECURSIVE ReadDirNames(_)
ReadDirNames(S) ==
    IF S = {} THEN <<>>
    ELSE LET m == MinStr(S) IN <<m>> \o ReadDirNames(S \ {m})

ReadDir(d) ==
    LET ns == ReadDirNames(DOMAIN d)
    IN  [i \in 1..Len(ns) |-> [name |-> ns[i], isDir |-> d[ns[i]].isDir]]

\* getSortedIconNames, the loop body's test: the entry is kept
IsIconEntry(e) == ~e.isDir /\ HasSuffix(e.name, DotSvg)

RECURSIVE FilterIcons(_)
FilterIcons(entries) ==
    IF entries = <<>> THEN <<>>
    ELSE IF IsIconEntry(Head(entries))
         THEN <<Head(entries).name>> \o FilterIcons(Tail(entries))
         ELSE FilterIcons(Tail(entries))

\* getSortedIconNames(iconDir); listable = FALSE: fs.ReadDir returns an error
getSortedIconNames(d, listable) ==
    IF ~listable THEN [err |-> TRUE, files |-> <<>>]
    ELSE [err |-> FALSE, files |-> SortStrings(FilterIcons(ReadDir(d)))]

\* isValidIconDir, for a path that exists, is a directory and can be listed
isValidIconDir(d) ==
    \E n \in DOMAIN d : ~d[n].isDir /\ HasSuffix(ToLower(n), DotSvg)

(***************************************************************************)
(* Rebuild: the search index, the page and its compressed form.            *)
(***************************************************************************)
\* Rebuild, the inner loop: append position i to the list of every term of
\* length >= 2
RECURSIVE AddTerms(_, _, _)
AddTerms(index, terms, i) ==
    IF terms = <<>> THEN index
    ELSE LET term == Head(terms)
             next == IF Len(term) >= MinQueryLen
                     THEN MapPut(index, term,
                                 Append(IF term \in DOMAIN index
                                        THEN index[term] ELSE <<>>, i))
                     ELSE index
         IN  AddTerms(next, Tail(terms), i)

\* the terms taken from the file name as it is spelled
FileTermsKeepCase(file) == SplitSeq(TrimSuffix(file, DotSvg))

\* Rebuild: the terms of one file
FileTerms(file) == SplitSeq(TrimSuffix(ToLower(file), DotSvg))

\* strconv.Itoa for n >= 0: the decimal digits
RECURSIVE Itoa(_)
Itoa(n) == IF n < 10 THEN <<48 + n>> ELSE Append(Itoa(n \div 10), 48 + (n % 10))

\* insertCommas, the second loop: groups of three digits from position i
RECURSIVE CommaGroups(_, _)
CommaGroups(in, i) ==
    IF i >= Len(in) THEN <<>>
    ELSE SubSeq(in, i + 1, i + 3)
         \o (IF i + 3 < Len(in) THEN <<44>> ELSE <<>>)
         \o CommaGroups(in, i + 3)

\* insertCommas
insertCommas(n) ==
    LET in == Itoa(n)
        mod == Len(in) % 3
    IN  IF Len(in) <= 3 THEN in
        ELSE (IF mod > 0 THEN SubSeq(in, 1, mod) \o <<44>> ELSE <<>>)
             \o CommaGroups(in, mod)

\* Rebuild: the HTML page: the header with the count, one grid entry per
\* file, in order; the href attribute is "/Icons/" and the name as it is
\* spelled, the label is the name
RenderPage(files) ==
    [total |-> insertCommas(Len(files)),
     items |-> [i \in 1..Len(files) |->
                   [href |-> IconsRoot \o files[i], label |-> files[i]]]]

\* gzip.NewWriter / Write / Close: the compressed stream holds the page
Gzip(page) == [magic |-> <<31, 139>>, payload |-> page]

\* gzip.NewReader / ReadAll
Gunzip(z) == z.payload

\* a nil []byte
NilPage == [total |-> <<>>, items |-> <<>>]
NilGzip == [magic |-> <<>>, payload |-> NilPage]

(***************************************************************************)
(* IconCache: the published fields, and the read operations.               *)
(***************************************************************************)
\* NewIconCache: the struct literal, before the first Rebuild
EmptyCache ==
    [icons |-> EmptyMap, names |-> <<>>, nameIndex |-> EmptyMap,
     searchIndex |-> EmptyMap, htmlPage |-> NilPage, gzippedPage |-> NilGzip,
     lastUpdated |-> 0]

\* IconCache.GetIcon
GetIcon(cache, name) ==
    IF name \in DOMAIN cache.icons
    THEN [exists |-> TRUE, content |-> cache.icons[name]]
    ELSE [exists |-> FALSE, content |-> 0]

\* the index branch walking the stored positions from the last to the first
SearchCollectBackwards(names, indexes) ==
    IF \E k \in 1..Len(indexes) : indexes[k] < 0 \/ indexes[k] >= Len(names)
    THEN [panic |-> TRUE, results |-> <<>>]
    ELSE [panic |-> FALSE,
          results |-> [k \in 1..Len(indexes) |->
                          names[indexes[Len(indexes) - k + 1] + 1]]]

\* Search, the index branch: c.names[idx] for every stored idx; an idx that
\* is no index of names is a runtime panic (index out of range)
SearchCollect(names, indexes) ==
    IF \E k \in 1..Len(indexes) : indexes[k] < 0 \/ indexes[k] >= Len(names)
    THEN [panic |-> TRUE, results |-> <<>>]
    ELSE [panic |-> FALSE,
          results |-> [k \in 1..Len(indexes) |-> names[indexes[k] + 1]]]

\* Search, the fallback branch: the full scan of names
RECURSIVE SearchFallback(_, _)
SearchFallback(names, query) ==
    IF names = <<>> THEN <<>>
    ELSE IF Contains(ToLower(Head(names)), query)
         THEN <<Head(names)>> \o SearchFallback(Tail(names), query)
         ELSE SearchFallback(Tail(names), query)

\* IconCache.Search
Search(cache, rawQuery) ==
    LET query == ToLower(rawQuery)
    IN  IF Len(query) < MinQueryLen THEN [panic |-> FALSE, results |-> <<>>]
        ELSE IF query \in DOMAIN cache.searchIndex
             THEN SearchCollect(cache.names, cache.searchIndex[query])
             ELSE [panic |-> FALSE,
                   results |-> SearchFallback(cache.names, query)]

(***************************************************************************)
(* Rebuild on private data: one iteration of the loop over the files, and  *)
(* the whole of a Rebuild that meets no error.                             *)
(***************************************************************************)
\* the locals newIcons, newNameIndex, newSearchIndex
EmptyLocals ==
    [newIcons |-> EmptyMap, newNameIndex |-> EmptyMap,
     newSearchIndex |-> EmptyMap]

\* the loop body with positions counted from 1
IndexFileOneBased(locals, file, i, content) ==
    [newIcons |-> MapPut(locals.newIcons, file, content),
     newNameIndex |-> MapPut(locals.newNameIndex, file, i + 1),
     newSearchIndex |-> AddTerms(locals.newSearchIndex, FileTerms(file), i)]

\* Rebuild, the loop body for files[i] (Go index i) with the content read
IndexFile(locals, file, i, content) ==
    [newIcons |-> MapPut(locals.newIcons, file, content),
     newNameIndex |-> MapPut(locals.newNameIndex, file, i),
     newSearchIndex |-> AddTerms(locals.newSearchIndex, FileTerms(file), i)]

RECURSIVE IndexFiles(_, _, _, _)
IndexFiles(locals, files, i, d) ==
    IF i >= Len(files) THEN locals
    ELSE IndexFiles(IndexFile(locals, files[i + 1], i, d[files[i + 1]].content),
                    files, i + 1, d)

\* the fields Rebuild installs from its locals
Installed(files, locals, htmlPage, gzipped, now) ==
    [icons |-> locals.newIcons, names |-> files,
     nameIndex |-> locals.newNameIndex,
     searchIndex |-> locals.newSearchIndex,
     htmlPage |-> htmlPage, gzippedPage |-> gzipped, lastUpdated |-> now]

\* NewIconCache(iconDir) when the scan, every read and the compression
\* succeed and the directory does not change meanwhile
NewIconCache(d) ==
    LET files == getSortedIconNames(d, TRUE).files
        page == RenderPage(files)
    IN  Installed(files, IndexFiles(EmptyLocals, files, 0, d), page,
                  Gzip(page), 1)

(***************************************************************************)
(* The list query (listHandler).  A request is [search, page, limit]; a    *)
(* page or limit parameter is [has, str]: has is query.Has, str is         *)
(* query.Get ("" when the parameter is absent).                            *)
(***************************************************************************)
MaxInt == 2^(IntBits - 1) - 1
MinInt == -(2^(IntBits - 1))

\* Go's int arithmetic wraps around
Wrap(x) == ((x - MinInt) % (2^IntBits)) + MinInt

IsDigit(b) == b \in 48..57

RECURSIVE DigitsValue(_, _)
DigitsValue(s, acc) ==
    IF s = <<>> THEN acc ELSE DigitsValue(Tail(s), acc * 10 + (Head(s) - 48))

\* strconv.Atoi: an optional sign, then one or more decimal digits; a value
\* outside the range of int is an error
Atoi(s) ==
    LET signed == s # <<>> /\ Head(s) \in {43, 45}
        digits == IF signed THEN Tail(s) ELSE s
        mag == DigitsValue(digits, 0)
        val == IF signed /\ Head(s) = 45 THEN -mag ELSE mag
    IN  IF digits = <<>> \/ \E k \in 1..Len(digits) : ~IsDigit(digits[k])
        THEN [err |-> TRUE, val |-> 0]
        ELSE IF val > MaxInt \/ val < MinInt
             THEN [err |-> TRUE, val |-> IF val > MaxInt THEN MaxInt ELSE MinInt]
             ELSE [err |-> FALSE, val |-> val]

Absent == [has |-> FALSE, str |-> <<>>]
Given(str) == [has |-> TRUE, str |-> str]

\* searchQuery without strings.TrimSpace
SearchQueryUntrimmed(q) == ToLower(q.search)

\* listHandler: searchQuery
SearchQuery(q) == TrimSpace(ToLower(q.search))

\* paging decided by the values: a parameter equal to its default counts
\* as absent
HasPagingByValue(q) ==
    \/ q.page.has /\ q.page.str # Itoa(DefaultPage)
    \/ q.limit.has /\ q.limit.str # Itoa(DefaultLimit)

\* listHandler: hasPage || hasLimit
HasPaging(q) == q.page.has \/ q.limit.has

\* listHandler: the effective page
PageOf(q) ==
    IF HasPaging(q)
    THEN LET a == Atoi(q.page.str)
         IN  IF a.err \/ a.val < 1 THEN DefaultPage ELSE a.val
    ELSE DefaultPage

\* listHandler: the effective limit
LimitOf(q) ==
    IF HasPaging(q)
    THEN LET a == Atoi(q.limit.str)
         IN  IF a.err \/ a.val < 1 THEN DefaultLimit ELSE a.val
    ELSE DefaultLimit

\* listHandler: files before slicing: the search result, or a copy of names
Candidates(cache, q) ==
    IF SearchQuery(q) # <<>>
    THEN Search(cache, SearchQuery(q))
    ELSE [panic |-> FALSE, results |-> cache.names]

\* a runtime panic: net/http aborts the request, no body is written
PanicResponse ==
    [status |-> "panic", page |-> 0, limit |-> 0, total |-> 0, files |-> <<>>]

\* writeJSONResponse
JSONResponse(files, page, limit, total) ==
    [status |-> "ok", page |-> page, limit |-> limit, total |-> total,
     files |-> files]

\* listHandler: "Apply pagination"; files[start:end] panics unless
\* 0 <= start <= end <= cap(files)
Paginate(files, page, limit) ==
    LET total == Len(files)
        start0 == Wrap((page - 1) * limit)
        end0 == Wrap(start0 + limit)
        start == IF start0 > total THEN total ELSE start0
        end == IF end0 > total THEN total ELSE end0
    IN  IF start < 0 \/ end < start
        THEN PanicResponse
        ELSE JSONResponse(SubSeq(files, start + 1, end), page, limit, total)

\* listHandler
listHandler(cache, q) ==
    LET cand == Candidates(cache, q)
        files == cand.results
        total == Len(files)
    IN  IF cand.panic THEN PanicResponse
        ELSE IF ~HasPaging(q) THEN JSONResponse(files, 1, total, total)
        ELSE Paginate(files, PageOf(q), LimitOf(q))

(***************************************************************************)
(* The asset endpoint (iconHandler).  A request is [path, acceptEncoding]: *)
(* r.URL.Path and r.Header.Get("Accept-Encoding") ("" when absent).        *)
(***************************************************************************)
\* "/Icons"
IconsBare == <<47, 73, 99, 111, 110, 115>>
\* "gzip"
GzipToken == <<103, 122, 105, 112>>

\* strings.HasPrefix
HasPrefix(s, prefix) ==
    Len(s) >= Len(prefix) /\ SubSeq(s, 1, Len(prefix)) = prefix

\* strings.TrimPrefix
TrimPrefix(s, prefix) ==
    IF HasPrefix(s, prefix) THEN SubSeq(s, Len(prefix) + 1, Len(s)) ELSE s

\* iconHandler: the request is for the root path
IsRootPath(path) == path = IconsRoot \/ path = IconsBare

\* iconHandler: the compressed page is chosen
WantsGzip(q) == Contains(q.acceptEncoding, GzipToken)

\* http.NotFound
NotFoundResponse ==
    [status |-> 404, contentType |-> "text/plain; charset=utf-8",
     encoding |-> "", body |-> "404 page not found"]

\* w.Header().Set(...); w.Write(body)
AssetResponse(contentType, encoding, body) ==
    [status |-> 200, contentType |-> contentType, encoding |-> encoding,
     body |-> body]

\* iconHandler
iconHandler(cache, q) ==
    IF IsRootPath(q.path)
    THEN IF WantsGzip(q)
         THEN AssetResponse("text/html; charset=utf-8", "gzip",
                            cache.gzippedPage)
         ELSE AssetResponse("text/html; charset=utf-8", "", cache.htmlPage)
    ELSE LET iconName == TrimPrefix(q.path, IconsRoot)
             got == GetIcon(cache, iconName)
         IN  IF got.exists
             THEN AssetResponse("image/svg+xml", "", got.content)
             ELSE NotFoundResponse

(***************************************************************************)
(* The running server.                                                     *)
(*   dir      the icon directory on disk                                   *)
(*   fsOps    filesystem operations performed so far                       *)
(*   c        the IconCache fields                                         *)
(*   mu       c.mu: w = the goroutine in Lock() ("none": no writer),       *)
(*            held = that writer holds the lock, readers = read locks held *)
(*   rb       the frame of the Rebuild call of each caller                 *)
(*   mainPc   main's position                                              *)
(*   w        watchDirectory: its own position, the position of its event  *)
(*            goroutine, the subscription                                  *)
(*   events   watcher.Events: the notifications not yet received           *)
(*   errors   watcher.Errors: the errors not yet received                  *)
(*   readers  the request goroutines                                       *)
(*   windows  for every debounce delay started so far, the number of       *)
(*            Rebuild calls made for events delivered up to its end        *)
(*   req, resp  a list request and its response                            *)
(***************************************************************************)
VARIABLES dir, fsOps, c, mu, rb, mainPc, w, events, errors, readers, windows,
          req, resp

vars == <<dir, fsOps, c, mu, rb, mainPc, w, events, errors, readers, windows,
          req, resp>>

Callers == {"main", "watcher"}
Readers == 1..NumReaders
Contents == 1..MaxContent

\* the names the filesystem operations of the model use
FsNames == {F_aa_b, F_Aa_aa, F_B_SVG, F_n_txt}

\* the queries and names the request goroutines of the model use
ReaderQueries == {<<97, 97>>, <<97, 45>>, <<98>>}
ReaderNames == {F_aa_b}

IdleFrame ==
    [pc |-> "idle", files |-> <<>>, i |-> 0, locals |-> EmptyLocals,
     htmlPage |-> NilPage, gzipped |-> NilGzip, ret |-> "none"]

\* Rebuild returns
Return(p, err) ==
    [rb EXCEPT ![p] = [IdleFrame EXCEPT !.ret = IF err THEN "err" ELSE "nil"]]

IdleReader ==
    [pc |-> "idle", op |-> "none", arg |-> <<>>, indexes |-> <<>>,
     panic |-> FALSE]

NoRequest == [search |-> <<>>, page |-> Absent, limit |-> Absent]

\* no request has been answered
NoResponse ==
    [status |-> "none", page |-> 0, limit |-> 0, total |-> 0, files |-> <<>>]

UnlockedMu == [w |-> "none", held |-> FALSE, readers |-> 0]

InitDirs ==
    {[n \in {F_aa_b, F_d_svg} |->
         IF n = F_d_svg THEN DirEntry ELSE FileEntry(1)]}

Init ==
    /\ dir \in InitDirs
    /\ fsOps = 0
    /\ c = EmptyCache
    /\ mu = UnlockedMu
    /\ rb = [p \in Callers |-> IdleFrame]
    /\ mainPc = "start"
    /\ w = [outer |-> "off", loop |-> "off", subscribed |-> FALSE,
            closed |-> FALSE, home |-> 0]
    /\ events = <<>>
    /\ errors = 0
    /\ readers = [r \in Readers |-> IdleReader]
    /\ windows = <<>>
    /\ req = NoRequest
    /\ resp = NoResponse

(***************************************************************************)
(* IconCache.Rebuild, called by p.                                         *)
(***************************************************************************)
\* the scan with c.mu.Lock() taken at the top of Rebuild
RebuildScanLocked(p) ==
    /\ rb[p].pc = "scan"
    /\ mu.w = "none" /\ mu.readers = 0
    /\ mu' = [mu EXCEPT !.w = p, !.held = TRUE]
    /\ \E listable \in BOOLEAN :
          LET r == getSortedIconNames(dir, listable)
          IN  rb' = IF r.err THEN Return(p, TRUE)
                    ELSE [rb EXCEPT ![p].pc = "read", ![p].files = r.files]
    /\ UNCHANGED <<dir, fsOps, c, mainPc, w, events, errors, readers,
                   windows, req, resp>>

\* files, err := getSortedIconNames(iconDir)
RebuildScan(p) ==
    /\ rb[p].pc = "scan"
    /\ \E listable \in BOOLEAN :
          LET r == getSortedIconNames(dir, listable)
          IN  rb' = IF r.err THEN Return(p, TRUE)
                    ELSE [rb EXCEPT ![p].pc = "read", ![p].files = r.files]
    /\ UNCHANGED <<dir, fsOps, c, mu, mainPc, w, events, errors, readers,
                   windows, req, resp>>

\* os.ReadFile succeeds on a regular file that is still there
Readable(d, file) == file \in DOMAIN d /\ ~d[file].isDir

\* the loop body writing the content into c.icons instead of newIcons
RebuildReadFileInPlace(p) ==
    /\ rb[p].pc = "read"
    /\ rb[p].i < Len(rb[p].files)
    /\ LET file == rb[p].files[rb[p].i + 1]
       IN  \E ok \in BOOLEAN :
              IF ok /\ Readable(dir, file)
              THEN /\ rb' = [rb EXCEPT
                               ![p].locals = IndexFile(rb[p].locals, file,
                                                       rb[p].i, dir[file].content),
                               ![p].i = rb[p].i + 1]
                   /\ c' = [c EXCEPT !.icons = MapPut(c.icons, file,
                                                      dir[file].content)]
              ELSE /\ rb' = Return(p, TRUE)
                   /\ c' = c
    /\ UNCHANGED <<dir, fsOps, mu, mainPc, w, events, errors, readers,
                   windows, req, resp>>

\* the loop body: os.ReadFile, then the maps
RebuildReadFile(p) ==
    /\ rb[p].pc = "read"
    /\ rb[p].i < Len(rb[p].files)
    /\ LET file == rb[p].files[rb[p].i + 1]
       IN  \E ok \in BOOLEAN :
              rb' = IF ok /\ Readable(dir, file)
                    THEN [rb EXCEPT
                            ![p].locals = IndexFile(rb[p].locals, file, rb[p].i,
                                                    dir[file].content),
                            ![p].i = rb[p].i + 1]
                    ELSE Return(p, TRUE)
    /\ UNCHANGED <<dir, fsOps, c, mu, mainPc, w, events, errors, readers,
                   windows, req, resp>>

\* the page and gz.Write / gz.Close
RebuildRender(p) ==
    /\ rb[p].pc = "read"
    /\ rb[p].i = Len(rb[p].files)
    /\ LET page == RenderPage(rb[p].files)
       IN  \E ok \in BOOLEAN :
              rb' = IF ok
                    THEN [rb EXCEPT ![p].htmlPage = page,
                                    ![p].gzipped = Gzip(page),
                                    ![p].pc = "lock"]
                    ELSE Return(p, TRUE)
    /\ UNCHANGED <<dir, fsOps, c, mu, mainPc, w, events, errors, readers,
                   windows, req, resp>>

\* c.mu.Lock(), first half: the writer announces itself; new readers wait
RebuildLock(p) ==
    /\ rb[p].pc = "lock"
    /\ mu.w = "none"
    /\ mu' = [mu EXCEPT !.w = p]
    /\ rb' = [rb EXCEPT ![p].pc = "lockwait"]
    /\ UNCHANGED <<dir, fsOps, c, mainPc, w, events, errors, readers, windows,
                   req, resp>>

\* the writer enters without waiting for the readers
CanLockAnyway(m) == TRUE

\* the writer may enter
CanLock(m) == m.readers = 0

\* c.mu.Lock(), second half: the writer enters once the readers have left
RebuildLocked(p) ==
    /\ rb[p].pc = "lockwait"
    /\ CanLock(mu)
    /\ mu' = [mu EXCEPT !.held = TRUE]
    /\ rb' = [rb EXCEPT ![p].pc = "assign", ![p].i = 0]
    /\ UNCHANGED <<dir, fsOps, c, mainPc, w, events, errors, readers, windows,
                   req, resp>>

\* the assignments, in the order of the code
AssignOrder ==
    <<"icons", "names", "nameIndex", "searchIndex", "htmlPage", "gzippedPage",
      "lastUpdated">>

\* the assignments without c.gzippedPage = gzippedBuf.Bytes(): the compressed
\* page of the previous build stays
AssignedValueStaleGzip(frame, cache, f) ==
    IF f = "gzippedPage" THEN cache.gzippedPage
    ELSE Installed(frame.files, frame.locals, frame.htmlPage, frame.gzipped,
                   cache.lastUpdated + 1)[f]

\* the value assigned to field f; time.Now() is later than every earlier time
AssignedValue(frame, cache, f) ==
    Installed(frame.files, frame.locals, frame.htmlPage, frame.gzipped,
              cache.lastUpdated + 1)[f]

\* c.icons = newIcons ... c.lastUpdated = time.Now(), one assignment a step
RebuildAssign(p) ==
    /\ rb[p].pc = "assign"
    /\ rb[p].i < Len(AssignOrder)
    /\ LET f == AssignOrder[rb[p].i + 1]
       IN  c' = [c EXCEPT ![f] = AssignedValue(rb[p], c, f)]
    /\ rb' = [rb EXCEPT ![p].i = rb[p].i + 1]
    /\ UNCHANGED <<dir, fsOps, mu, mainPc, w, events, errors, readers, windows,
                   req, resp>>

\* Rebuild returning with the write lock still held (no deferred Unlock)
RebuildUnlockLeak(p) ==
    /\ rb[p].pc = "assign"
    /\ rb[p].i = Len(AssignOrder)
    /\ rb' = Return(p, FALSE)
    /\ UNCHANGED <<dir, fsOps, c, mu, mainPc, w, events, errors, readers,
                   windows, req, resp>>

\* return nil, and the deferred c.mu.Unlock()
RebuildUnlock(p) ==
    /\ rb[p].pc = "assign"
    /\ rb[p].i = Len(AssignOrder)
    /\ mu' = [mu EXCEPT !.w = "none", !.held = FALSE]
    /\ rb' = Return(p, FALSE)
    /\ UNCHANGED <<dir, fsOps, c, mainPc, w, events, errors, readers, windows,
                   req, resp>>

(***************************************************************************)
(* main                                                                    *)
(***************************************************************************)
\* cache, err := NewIconCache(cfg.IconDir): the first Rebuild starts
MainNewIconCache ==
    /\ mainPc = "start"
    /\ mainPc' = "newcache"
    /\ rb' = [rb EXCEPT !["main"].pc = "scan"]
    /\ UNCHANGED <<dir, fsOps, c, mu, w, events, errors, readers, windows,
                   req, resp>>

\* if err != nil { log.Fatalf(...) }
MainFatal ==
    /\ mainPc = "newcache"
    /\ rb["main"].ret = "err"
    /\ mainPc' = "fatal"
    /\ rb' = [rb EXCEPT !["main"] = IdleFrame]
    /\ UNCHANGED <<dir, fsOps, c, mu, w, events, errors, readers, windows,
                   req, resp>>

\* main going on to serve whatever NewIconCache returned
MainServeUnchecked ==
    /\ mainPc = "newcache"
    /\ rb["main"].ret # "none"
    /\ mainPc' = "serving"
    /\ rb' = [rb EXCEPT !["main"] = IdleFrame]
    /\ w' = [w EXCEPT !.outer = "new"]
    /\ UNCHANGED <<dir, fsOps, c, mu, events, errors, readers, windows, req,
                   resp>>

\* go watchDirectory(...); http.Handle(...); http.ListenAndServe(...)
MainServe ==
    /\ mainPc = "newcache"
    /\ rb["main"].ret = "nil"
    /\ mainPc' = "serving"
    /\ rb' = [rb EXCEPT !["main"] = IdleFrame]
    /\ w' = [w EXCEPT !.outer = "new"]
    /\ UNCHANGED <<dir, fsOps, c, mu, events, errors, readers, windows, req,
                   resp>>

(***************************************************************************)
(* watchDirectory                                                          *)
(***************************************************************************)
\* fsnotify.NewWatcher(), and on success the event goroutine starts
WatchNew ==
    /\ w.outer = "new"
    /\ \E ok \in BOOLEAN :
          w' = IF ok THEN [w EXCEPT !.outer = "add", !.loop = "select"]
               ELSE [w EXCEPT !.outer = "returned"]
    /\ UNCHANGED <<dir, fsOps, c, mu, rb, mainPc, events, errors, readers,
                   windows, req, resp>>

\* a failure of watcher.Add ending the process
WatchAddFatal ==
    /\ w.outer = "add"
    /\ \E ok \in BOOLEAN :
          /\ w' = IF ok THEN [w EXCEPT !.outer = "blocked", !.subscribed = TRUE]
                  ELSE [w EXCEPT !.outer = "returned", !.closed = TRUE]
          /\ mainPc' = IF ok THEN mainPc ELSE "fatal"
    /\ UNCHANGED <<dir, fsOps, c, mu, rb, events, errors, readers, windows,
                   req, resp>>

\* watcher.Add(dir); on failure return, and the deferred watcher.Close()
\* closes both channels
WatchAdd ==
    /\ w.outer = "add"
    /\ \E ok \in BOOLEAN :
          w' = IF ok THEN [w EXCEPT !.outer = "blocked", !.subscribed = TRUE]
               ELSE [w EXCEPT !.outer = "returned", !.closed = TRUE]
    /\ UNCHANGED <<dir, fsOps, c, mu, rb, mainPc, events, errors, readers,
                   windows, req, resp>>

\* event.Op&(Write|Create|Remove|Rename) != 0 and the name ends in ".svg",
\* compared in lower case
Qualifies(e) ==
    /\ e.op \in {"Write", "Create", "Remove", "Rename"}
    /\ HasSuffix(ToLower(e.name), DotSvg)

\* the event filter without Write
StartsRebuildNoWrite(e) ==
    /\ e.op \in {"Create", "Remove", "Rename"}
    /\ HasSuffix(ToLower(e.name), DotSvg)

\* the event filter without the test of the name
StartsRebuildAnyName(e) == e.op \in {"Write", "Create", "Remove", "Rename"}

\* the watcher goes on to time.Sleep and Rebuild for the event it received
StartsRebuild(e) == Qualifies(e)

\* events received and handled while an earlier Rebuild is still running,
\* as if every event had a goroutine of its own
LoopEventWhileBusy ==
    /\ w.loop \in {"select", "rebuild"}
    /\ ~w.closed
    /\ events # <<>>
    /\ LET e == Head(events)
       IN  IF StartsRebuild(e)
           THEN /\ w' = [w EXCEPT !.loop = "sleep",
                                  !.home = IF e.during > 0 THEN e.during
                                           ELSE Len(windows) + 1]
                /\ windows' = Append(windows, 0)
           ELSE UNCHANGED <<w, windows>>
    /\ events' = Tail(events)
    /\ UNCHANGED <<dir, fsOps, c, mu, rb, mainPc, errors, readers, req, resp>>

\* case event, ok := <-watcher.Events, with ok: a qualifying event starts
\* the debounce delay
LoopEvent ==
    /\ w.loop = "select"
    /\ ~w.closed
    /\ events # <<>>
    /\ LET e == Head(events)
       IN  IF StartsRebuild(e)
           THEN /\ w' = [w EXCEPT !.loop = "sleep",
                                  !.home = IF e.during > 0 THEN e.during
                                           ELSE Len(windows) + 1]
                /\ windows' = Append(windows, 0)
           ELSE UNCHANGED <<w, windows>>
    /\ events' = Tail(events)
    /\ UNCHANGED <<dir, fsOps, c, mu, rb, mainPc, errors, readers, req, resp>>

\* time.Sleep(500 * time.Millisecond) is over: cache.Rebuild(dir) is called
LoopWake ==
    /\ w.loop = "sleep"
    /\ w' = [w EXCEPT !.loop = "rebuild"]
    /\ rb' = [rb EXCEPT !["watcher"].pc = "scan"]
    /\ windows' = [windows EXCEPT ![w.home] = @ + 1]
    /\ UNCHANGED <<dir, fsOps, c, mu, mainPc, events, errors, readers, req,
                   resp>>

\* the goroutine returning when Rebuild returns an error
LoopRebuiltStopOnError ==
    /\ w.loop = "rebuild"
    /\ rb["watcher"].ret # "none"
    /\ w' = [w EXCEPT !.loop = IF rb["watcher"].ret = "err" THEN "exited"
                                ELSE "select"]
    /\ rb' = [rb EXCEPT !["watcher"] = IdleFrame]
    /\ UNCHANGED <<dir, fsOps, c, mu, mainPc, events, errors, readers, windows,
                   req, resp>>

\* Rebuild has returned; either way the result is logged and the loop goes on
LoopRebuilt ==
    /\ w.loop = "rebuild"
    /\ rb["watcher"].ret # "none"
    /\ w' = [w EXCEPT !.loop = "select"]
    /\ rb' = [rb EXCEPT !["watcher"] = IdleFrame]
    /\ UNCHANGED <<dir, fsOps, c, mu, mainPc, events, errors, readers, windows,
                   req, resp>>

\* case err, ok := <-watcher.Errors, with ok: the error is logged
LoopError ==
    /\ w.loop = "select"
    /\ ~w.closed
    /\ errors > 0
    /\ errors' = errors - 1
    /\ UNCHANGED <<dir, fsOps, c, mu, rb, mainPc, w, events, readers, windows,
                   req, resp>>

\* a receive on a closed channel (!ok): the goroutine returns
LoopClosed ==
    /\ w.loop = "select"
    /\ w.closed
    /\ w' = [w EXCEPT !.loop = "exited"]
    /\ events' = <<>>
    /\ errors' = 0
    /\ UNCHANGED <<dir, fsOps, c, mu, rb, mainPc, readers, windows, req, resp>>

(***************************************************************************)
(* The filesystem: the directory changes, and the notification source      *)
(* reports the change if the directory is subscribed.                      *)
(***************************************************************************)
Event(op, name) ==
    [op |-> op, name |-> name,
     during |-> IF w.loop = "sleep" THEN Len(windows) ELSE 0]

\* a notification source that drops what the watcher is not waiting for
NotifyUnlessBusy(evs) ==
    events' = IF w.subscribed /\ ~w.closed /\ w.loop = "select"
              THEN events \o evs ELSE events

\* the notification source queues the events for watcher.Events
Notify(evs) ==
    events' = IF w.subscribed /\ ~w.closed THEN events \o evs ELSE events

FsCreate(n, k) ==
    /\ fsOps < MaxFsOps
    /\ n \notin DOMAIN dir
    /\ dir' = MapPut(dir, n, FileEntry(k))
    /\ Notify(<<Event("Create", n)>>)
    /\ fsOps' = fsOps + 1
    /\ UNCHANGED <<c, mu, rb, mainPc, w, errors, readers, windows, req, resp>>

FsWrite(n, k) ==
    /\ fsOps < MaxFsOps
    /\ n \in DOMAIN dir
    /\ ~dir[n].isDir
    /\ dir' = MapPut(dir, n, FileEntry(k))
    /\ Notify(<<Event("Write", n)>>)
    /\ fsOps' = fsOps + 1
    /\ UNCHANGED <<c, mu, rb, mainPc, w, errors, readers, windows, req, resp>>

FsRemove(n) ==
    /\ fsOps < MaxFsOps
    /\ n \in DOMAIN dir
    /\ dir' = [x \in (DOMAIN dir) \ {n} |-> dir[x]]
    /\ Notify(<<Event("Remove", n)>>)
    /\ fsOps' = fsOps + 1
    /\ UNCHANGED <<c, mu, rb, mainPc, w, errors, readers, windows, req, resp>>

FsRename(n, m) ==
    /\ fsOps < MaxFsOps
    /\ n \in DOMAIN dir
    /\ ~dir[n].isDir
    /\ m \notin DOMAIN dir
    /\ dir' = [x \in ((DOMAIN dir) \ {n}) \cup {m} |->
                  IF x = m THEN dir[n] ELSE dir[x]]
    /\ Notify(<<Event("Rename", n), Event("Create", m)>>)
    /\ fsOps' = fsOps + 1
    /\ UNCHANGED <<c, mu, rb, mainPc, w, errors, readers, windows, req, resp>>

FsChmod(n) ==
    /\ fsOps < MaxFsOps
    /\ n \in DOMAIN dir
    /\ w.subscribed /\ ~w.closed
    /\ Notify(<<Event("Chmod", n)>>)
    /\ fsOps' = fsOps + 1
    /\ UNCHANGED <<dir, c, mu, rb, mainPc, w, errors, readers, windows, req,
                   resp>>

\* the notification source reports an error
FsError ==
    /\ fsOps < MaxFsOps
    /\ w.subscribed /\ ~w.closed
    /\ errors' = errors + 1
    /\ fsOps' = fsOps + 1
    /\ UNCHANGED <<dir, c, mu, rb, mainPc, w, events, readers, windows, req,
                   resp>>

(***************************************************************************)
(* The request goroutines: one read operation of the cache at a time.      *)
(***************************************************************************)
ReadOps ==
    {[op |-> "GetIcon", arg |-> n] : n \in ReaderNames}
    \cup {[op |-> "Search", arg |-> q] : q \in ReaderQueries}
    \cup {[op |-> o, arg |-> <<>>] : o \in {"Names", "GetHTML", "GetGzippedHTML"}}

\* a reader entering whatever the writer does, as a read without RLock
CanRLockAnyway(m) == TRUE

\* a reader may enter: no writer holds the lock or waits for it
CanRLock(m) == m.w = "none"

\* c.mu.RLock() / cache.mu.RLock()
ReaderRLock(r) ==
    /\ mainPc = "serving"
    /\ readers[r].pc = "idle"
    /\ CanRLock(mu)
    /\ \E o \in ReadOps :
          readers' = [readers EXCEPT ![r] =
                         [IdleReader EXCEPT !.pc = "locked", !.op = o.op,
                                            !.arg = o.arg]]
    /\ mu' = [mu EXCEPT !.readers = @ + 1]
    /\ UNCHANGED <<dir, fsOps, c, rb, mainPc, w, events, errors, windows, req,
                   resp>>

\* the read operations with listHandler building its list in the array of
\* c.names (append(cache.names[:0], ...)) instead of in a copy
ReaderReadInPlace(r) ==
    /\ readers[r].pc = "locked"
    /\ \/ readers[r].op # "Search"
       \/ Len(readers[r].arg) < MinQueryLen
    /\ readers' = [readers EXCEPT ![r] = [IdleReader EXCEPT !.pc = "unlock"]]
    /\ c' = IF readers[r].op = "Names" THEN [c EXCEPT !.names = <<>>] ELSE c
    /\ UNCHANGED <<dir, fsOps, mu, rb, mainPc, w, events, errors, windows,
                   req, resp>>

\* GetIcon, GetHTML, GetGzippedHTML, the copy of names in listHandler, and a
\* Search that returns nil for a short query: one read, then the unlock
ReaderRead(r) ==
    /\ readers[r].pc = "locked"
    /\ \/ readers[r].op # "Search"
       \/ Len(readers[r].arg) < MinQueryLen
    /\ readers' = [readers EXCEPT ![r] = [IdleReader EXCEPT !.pc = "unlock"]]
    /\ UNCHANGED <<dir, fsOps, c, mu, rb, mainPc, w, events, errors, windows,
                   req, resp>>

\* Search: indexes, exists := c.searchIndex[query]
ReaderLookup(r) ==
    /\ readers[r].pc = "locked"
    /\ readers[r].op = "Search"
    /\ Len(readers[r].arg) >= MinQueryLen
    /\ readers' = IF readers[r].arg \in DOMAIN c.searchIndex
                  THEN [readers EXCEPT
                          ![r].pc = "collect",
                          ![r].indexes = c.searchIndex[readers[r].arg]]
                  ELSE [readers EXCEPT ![r].pc = "fallback"]
    /\ UNCHANGED <<dir, fsOps, c, mu, rb, mainPc, w, events, errors, windows,
                   req, resp>>

\* Search: the loop over indexes, or the loop over c.names
ReaderCollect(r) ==
    /\ readers[r].pc \in {"collect", "fallback"}
    /\ readers' = [readers EXCEPT ![r] =
                     [IdleReader EXCEPT
                        !.pc = "unlock",
                        !.panic = /\ readers[r].pc = "collect"
                                  /\ SearchCollect(c.names,
                                                   readers[r].indexes).panic]]
    /\ UNCHANGED <<dir, fsOps, c, mu, rb, mainPc, w, events, errors, windows,
                   req, resp>>

\* the deferred c.mu.RUnlock()
ReaderRUnlock(r) ==
    /\ readers[r].pc = "unlock"
    /\ readers' = [readers EXCEPT ![r] = IdleReader]
    /\ mu' = [mu EXCEPT !.readers = @ - 1]
    /\ UNCHANGED <<dir, fsOps, c, rb, mainPc, w, events, errors, windows, req,
                   resp>>

(***************************************************************************)
(* Spec: the server from process start, with the directory changing in     *)
(* every way and no request in flight.                                     *)
(***************************************************************************)
Rebuild(p) ==
    \/ RebuildScan(p)
    \/ RebuildReadFile(p)
    \/ RebuildRender(p)
    \/ RebuildLock(p)
    \/ RebuildLocked(p)
    \/ RebuildAssign(p)
    \/ RebuildUnlock(p)

Main == MainNewIconCache \/ MainFatal \/ MainServe

Watch == WatchNew \/ WatchAdd \/ LoopError \/ LoopClosed

Loop == LoopEvent \/ LoopWake \/ LoopRebuilt

Fs ==
    \/ \E n \in FsNames, k \in Contents : FsCreate(n, k) \/ FsWrite(n, k)
    \/ \E n \in FsNames : FsRemove(n) \/ FsChmod(n)
    \/ \E n \in FsNames, m \in FsNames : FsRename(n, m)
    \/ FsError

Next ==
    \/ \E p \in Callers : Rebuild(p)
    \/ Main
    \/ Watch
    \/ Loop
    \/ Fs

Spec == Init /\ [][Next]_vars

(***************************************************************************)
(* ServeSpec: the server once it serves (the first snapshot installed, the *)
(* watcher subscribed), with requests in flight while the watcher          *)
(* rebuilds.                                                               *)
(***************************************************************************)
\* the names the filesystem operations of ServeSpec use
ServeNames == {F_aa_b, F_Aa_aa}

ServeInit ==
    /\ dir \in InitDirs
    /\ fsOps = 0
    /\ c = NewIconCache(dir)
    /\ mu = UnlockedMu
    /\ rb = [p \in Callers |-> IdleFrame]
    /\ mainPc = "serving"
    /\ w = [outer |-> "blocked", loop |-> "select", subscribed |-> TRUE,
            closed |-> FALSE, home |-> 0]
    /\ events = <<>>
    /\ errors = 0
    /\ readers = [r \in Readers |-> IdleReader]
    /\ windows = <<>>
    /\ req = NoRequest
    /\ resp = NoResponse

Reader(r) ==
    \/ ReaderRLock(r)
    \/ ReaderRead(r)
    \/ ReaderLookup(r)
    \/ ReaderCollect(r)
    \/ ReaderRUnlock(r)

ServeFs ==
    \/ \E n \in ServeNames, k \in Contents : FsCreate(n, k) \/ FsWrite(n, k)
    \/ \E n \in ServeNames : FsRemove(n)

\* the filesystem operations of ServeSpec: files come, are rewritten and go;
\* what is written is always the same, the requests being compared with
\* the cache and not with the disk
ReaderFs ==
    \E n \in ServeNames : FsCreate(n, 1) \/ FsWrite(n, 1) \/ FsRemove(n)

ServeNext ==
    \/ \E r \in Readers : Reader(r)
    \/ Rebuild("watcher")
    \/ Loop
    \/ ReaderFs

ServeSpec == ServeInit /\ [][ServeNext]_vars

\* a request goroutine that holds the read lock goes on: it reads memory
\* and unlocks
ReaderStep(r) ==
    \/ ReaderRead(r)
    \/ ReaderLookup(r)
    \/ ReaderCollect(r)
    \/ ReaderRUnlock(r)

\* the icon file of the start is rewritten and goes
LockFs == FsWrite(F_aa_b, 1) \/ FsRemove(F_aa_b)

LockNext ==
    \/ \E r \in Readers : Reader(r)
    \/ Rebuild("watcher")
    \/ Loop
    \/ LockFs

\* LockSpec: requests and the watcher's rebuilds under fair scheduling: a
\* goroutine that can take a step is scheduled. Requests arrive or not, the
\* directory changes or not.
LockSpec ==
    /\ ServeInit
    /\ [][LockNext]_vars
    /\ \A r \in Readers : WF_vars(ReaderStep(r))
    /\ WF_vars(Rebuild("watcher"))
    /\ WF_vars(Loop)

(***************************************************************************)
(* ListSpec: one list request against the cache built from a directory.    *)
(***************************************************************************)
\* the directories: any of four icon files, beside a text file and a
\* sub-directory named "d.svg"
ListDirs ==
    {[n \in S \cup {F_n_txt, F_d_svg} |->
         IF n = F_d_svg THEN DirEntry ELSE FileEntry(1)] :
     S \in SUBSET {F_aa_b, F_Aa_aa, F_ab_cd, F_B_SVG}}

\* the search parameters: "", " ", " B", "aa", " AA ", "a-", "svg", "b.s",
\* "zz"
ListSearches ==
    {<<>>, <<32>>, <<32, 66>>, <<97, 97>>, <<32, 65, 65, 32>>, <<97, 45>>,
     <<115, 118, 103>>, <<98, 46, 115>>, <<122, 122>>}

\* the page parameters: absent, "", "x", "0", "-1", "1", "2", "3", "+2", the
\* largest int, the int after it, and half the range plus one
ListPages ==
    {Absent, Given(<<>>), Given(<<120>>), Given(<<48>>), Given(<<45, 49>>),
     Given(<<49>>), Given(<<50>>), Given(<<51>>), Given(<<43, 50>>),
     Given(Itoa(MaxInt)), Given(Itoa(MaxInt + 1)),
     Given(Itoa((MaxInt + 1) \div 2 + 1))}

\* the limit parameters: absent, "x", "0", "1", "2", "4", "1000", the
\* largest int
ListLimits ==
    {Absent, Given(<<120>>), Given(<<48>>), Given(<<49>>), Given(<<50>>),
     Given(<<52>>), Given(Itoa(DefaultLimit)), Given(Itoa(MaxInt))}

ListRequests ==
    {[search |-> s, page |-> p, limit |-> l] :
     s \in ListSearches, p \in ListPages, l \in ListLimits}

\* the server serving, the directory as the last Rebuild read it
ListInit ==
    /\ dir \in ListDirs
    /\ fsOps = 0
    /\ c = NewIconCache(dir)
    /\ mu = UnlockedMu
    /\ rb = [p \in Callers |-> IdleFrame]
    /\ mainPc = "serving"
    /\ w = [outer |-> "blocked", loop |-> "select", subscribed |-> TRUE,
            closed |-> FALSE, home |-> 0]
    /\ events = <<>>
    /\ errors = 0
    /\ readers = [r \in Readers |-> IdleReader]
    /\ windows = <<>>
    /\ req = NoRequest
    /\ resp = NoResponse

\* GET /Icons/list?search=..&page=..&limit=..
ListRequest(q) ==
    /\ resp.status = "none"
    /\ req' = q
    /\ resp' = listHandler(c, q)
    /\ UNCHANGED <<dir, fsOps, c, mu, rb, mainPc, w, events, errors, readers,
                   windows>>

ListNext == \E q \in ListRequests : ListRequest(q)

ListSpec == ListInit /\ [][ListNext]_vars

(***************************************************************************)
(* AssetSpec: one asset request against the cache built from a directory,  *)
(* the directory having changed since with no watcher to report it.        *)
(***************************************************************************)
\* the directories: aa-b.svg, B.SVG and c#.svg, each absent or with one of
\* two contents, beside a sub-directory named "d.svg"
AssetDirs ==
    {[n \in (DOMAIN k) \cup {F_d_svg} |->
         IF n = F_d_svg THEN DirEntry ELSE FileEntry(k[n])] :
     k \in UNION {[S -> {1, 2}] : S \in SUBSET {F_aa_b, F_B_SVG, F_c_sharp}}}

\* the paths: "/Icons/", "/Icons", and "/Icons/" before "aa-b.svg",
\* "AA-B.svg", "B.SVG", "d.svg", "aa-b", "c#.svg" and "c"
AssetPaths ==
    {IconsRoot, IconsBare}
    \cup {IconsRoot \o n :
            n \in {F_aa_b, <<65, 65, 45, 66, 46, 115, 118, 103>>, F_B_SVG,
                   F_d_svg, <<97, 97, 45, 98>>, F_c_sharp, <<99>>}}

\* the Accept-Encoding headers: absent, "gzip", "deflate", "deflate, gzip",
\* "gzip;q=0"
AssetEncodings ==
    {<<>>, GzipToken, <<100, 101, 102, 108, 97, 116, 101>>,
     <<100, 101, 102, 108, 97, 116, 101, 44, 32>> \o GzipToken,
     GzipToken \o <<59, 113, 61, 48>>}

AssetRequests ==
    {[path |-> p, acceptEncoding |-> a] :
     p \in AssetPaths, a \in AssetEncodings}

NoAssetRequest == [path |-> <<>>, acceptEncoding |-> <<>>]

NoAssetResponse ==
    [status |-> 0, contentType |-> "", encoding |-> "", body |-> ""]

\* the server serving, fsnotify.NewWatcher having failed
AssetInit ==
    /\ dir \in AssetDirs
    /\ fsOps = 0
    /\ c \in {NewIconCache(d) : d \in AssetDirs}
    /\ mu = UnlockedMu
    /\ rb = [p \in Callers |-> IdleFrame]
    /\ mainPc = "serving"
    /\ w = [outer |-> "returned", loop |-> "off", subscribed |-> FALSE,
            closed |-> FALSE, home |-> 0]
    /\ events = <<>>
    /\ errors = 0
    /\ readers = [r \in Readers |-> IdleReader]
    /\ windows = <<>>
    /\ req = NoAssetRequest
    /\ resp = NoAssetResponse

\* GET /Icons/<name>, GET /Icons/
AssetRequest(q) ==
    /\ resp.status = 0
    /\ req' = q
    /\ resp' = iconHandler(c, q)
    /\ UNCHANGED <<dir, fsOps, c, mu, rb, mainPc, w, events, errors, readers,
                   windows>>

AssetNext == \E q \in AssetRequests : AssetRequest(q)

AssetSpec == AssetInit /\ [][AssetNext]_vars

(***************************************************************************)
(* BootSpec: the server from process start with requests arriving at any   *)
(* time; a request is served once main listens.                            *)
(***************************************************************************)
BootNext ==
    \/ Main
    \/ Rebuild("main")
    \/ WatchNew
    \/ WatchAdd
    \/ \E r \in Readers : Reader(r)
    \/ ServeFs

BootSpec == Init /\ [][BootNext]_vars

(***************************************************************************)
(* WatchSpec: the watcher of a serving server with the directory changing, *)
(* no request in flight.  The watcher goroutine is scheduled whenever it   *)
(* can take a step: a receive with a value waiting, the end of time.Sleep, *)
(* every step of Rebuild (file I/O terminates; nobody else holds c.mu).    *)
(***************************************************************************)
WatchNext ==
    \/ Rebuild("watcher")
    \/ Loop
    \/ ServeFs

WatchSpec ==
    /\ ServeInit
    /\ [][WatchNext]_vars
    /\ WF_vars(Loop)
    /\ WF_vars(Rebuild("watcher"))

(***************************************************************************)
(* FailSpec: the serving server from the start of watchDirectory, with the *)
(* watcher failing or working, the directory changing, and asset and list  *)
(* requests answered at any time.  A request is [kind, q, failed]: failed  *)
(* records whether the watcher had stopped when the request was issued.    *)
(***************************************************************************)
\* watchDirectory has returned or its event goroutine has
WatcherStopped == w.outer = "returned" \/ w.loop = "exited"

\* GET /Icons/aa-b.svg, GET /Icons/Aa-aa.svg, GET /Icons/, GET /Icons/list
FailRequests ==
    {[kind |-> "asset", failed |-> FALSE,
      q |-> [path |-> p, acceptEncoding |-> <<>>]] :
     p \in {IconsRoot \o F_aa_b, IconsRoot \o F_Aa_aa, IconsRoot}}
    \cup {[kind |-> "list", failed |-> FALSE, q |-> NoRequest]}

\* the handler the request is routed to
Answer(cache, rq) ==
    IF rq.kind = "list" THEN listHandler(cache, rq.q)
    ELSE iconHandler(cache, rq.q)

\* main has just started go watchDirectory(...) and listens
FailInit ==
    /\ dir \in InitDirs
    /\ fsOps = 0
    /\ c = NewIconCache(dir)
    /\ mu = UnlockedMu
    /\ rb = [p \in Callers |-> IdleFrame]
    /\ mainPc = "serving"
    /\ w = [outer |-> "new", loop |-> "off", subscribed |-> FALSE,
            closed |-> FALSE, home |-> 0]
    /\ events = <<>>
    /\ errors = 0
    /\ readers = [r \in Readers |-> IdleReader]
    /\ windows = <<>>
    /\ req = [kind |-> "none", failed |-> FALSE, q |-> NoRequest]
    /\ resp = NoResponse

\* a request: the handler reads the cache under c.mu.RLock()
FailRequest(rq) ==
    /\ mainPc = "serving"
    /\ CanRLock(mu)
    /\ req' = [rq EXCEPT !.failed = WatcherStopped]
    /\ resp' = Answer(c, rq)
    /\ UNCHANGED <<dir, fsOps, c, mu, rb, mainPc, w, events, errors, readers,
                   windows>>

FailNext ==
    \/ Watch
    \/ FsError
    \/ ServeFs
    \/ Loop
    \/ Rebuild("watcher")
    \/ \E rq \in FailRequests : FailRequest(rq)

FailSpec == FailInit /\ [][FailNext]_vars

(***************************************************************************)
(* The properties.                                                         *)
(***************************************************************************)
\* byte order on strings, stated directly: a is a proper prefix of b, or
\* at the first position where they differ a has the smaller byte
ByteLess(a, b) ==
    \E k \in 1..(Len(b)) :
        /\ k <= Len(a) + 1
        /\ SubSeq(a, 1, k - 1) = SubSeq(b, 1, k - 1)
        /\ k = Len(a) + 1 \/ a[k] < b[k]

StrictlyAscending(names) ==
    \A i \in 1..(Len(names) - 1) : ByteLess(names[i], names[i + 1])

\* the lowercased name with the ".svg" extension stripped
Stem(name) ==
    LET l == ToLower(name)
    IN  IF HasSuffix(l, DotSvg) THEN SubSeq(l, 1, Len(l) - Len(DotSvg)) ELSE l

\* t is one of the hyphen-separated pieces of s
IsPiece(t, s) ==
    \E a \in 1..(Len(s) + 1) :
        /\ a + Len(t) - 1 <= Len(s)
        /\ SubSeq(s, a, a + Len(t) - 1) = t
        /\ \A k \in 1..Len(t) : t[k] # Hyphen
        /\ a = 1 \/ s[a - 1] = Hyphen
        /\ a + Len(t) - 1 = Len(s) \/ s[a + Len(t)] = Hyphen

\* no Rebuild is between its first and its last assignment to the cache
Published == \A p \in Callers : rb[p].pc # "assign"

\* the names of a cache agree with its maps and its search index
NamesAgree(cache) ==
    /\ DOMAIN cache.icons = Range(cache.names)
    /\ DOMAIN cache.nameIndex = Range(cache.names)
    /\ \A t \in DOMAIN cache.searchIndex :
          \A k \in 1..Len(cache.searchIndex[t]) :
              cache.searchIndex[t][k] \in 0..(Len(cache.names) - 1)

\* r holds the read lock and has not finished reading
Reading(r) == readers[r].pc \in {"locked", "collect", "fallback"}

\* C1: no torn reads. While a read operation holds the read lock, the cache
\* is not assigned to (so all it reads comes from one rebuild), its names
\* agree in length and content with the icons key set, the searchIndex
\* position bounds and the two pages, and a Search never indexes names out
\* of range.
C1_NoTornReads ==
    /\ [](\A r \in Readers :
             /\ ~readers[r].panic
             /\ Reading(r) =>
                   /\ Published
                   /\ NamesAgree(c)
                   /\ Len(c.htmlPage.items) = Len(c.names)
                   /\ Gunzip(c.gzippedPage) = c.htmlPage
                   /\ readers[r].pc = "collect" =>
                         ~SearchCollect(c.names, readers[r].indexes).panic)
    /\ [][(\E r \in Readers : Reading(r)) => c' = c]_vars

\* a Search has read its positions from searchIndex while a Rebuild with
\* another file list waits to install
C1_Witness ==
    \E r \in Readers :
        /\ readers[r].pc = "collect"
        /\ Len(readers[r].indexes) >= 2
        /\ rb["watcher"].pc = "lockwait"
        /\ rb["watcher"].files # c.names

\* C2: debounce coalescing. The events delivered up to the end of one
\* debounce delay (the one that started it and those delivered while the
\* watcher sleeps) cause one call of Rebuild.
C2_OneRebuildPerWindow ==
    \A k \in 1..Len(windows) : windows[k] <= 1

\* C3: a failed Rebuild leaves the cache as it was. From the call to the
\* return of an error no step changes a field of the cache, and an error
\* is only returned before the first assignment.
C3_FailedRebuildKeepsCache ==
    [][\A p \in Callers :
          /\ rb[p].pc \in {"scan", "read", "lock", "lockwait"} => c' = c
          /\ (rb'[p].ret = "err" /\ rb[p].ret # "err") =>
                rb[p].pc \in {"scan", "read"}]_vars

\* a Rebuild of the watcher has failed after reading a file, with a
\* snapshot published that differs from the directory
C3_Witness ==
    /\ rb["watcher"].ret = "err"
    /\ c.lastUpdated >= 1
    /\ c.names # <<>>
    /\ c.names # getSortedIconNames(dir, TRUE).files

\* C4: in every published state names is strictly ascending, the keys of
\* icons and of nameIndex are the names, and names[nameIndex[n]] = n.
C4_NamesSortedAndIndexed ==
    Published =>
        /\ StrictlyAscending(c.names)
        /\ DOMAIN c.icons = Range(c.names)
        /\ DOMAIN c.nameIndex = Range(c.names)
        /\ \A n \in Range(c.names) :
              /\ c.nameIndex[n] \in 0..(Len(c.names) - 1)
              /\ c.names[c.nameIndex[n] + 1] = n

\* two names are published after a second install
C4_Witness ==
    /\ Published
    /\ Len(c.names) >= 2
    /\ c.lastUpdated >= 2

\* C5: in every published state searchIndex is the inverted index of names:
\* t maps to position i exactly if t has length >= 2 and is a hyphen
\* separated piece of the stem of names[i]; positions are indexes of names
\* and are listed in ascending order.
C5_SearchIndexIsInvertedIndex ==
    Published =>
        /\ \A t \in DOMAIN c.searchIndex :
              LET pos == c.searchIndex[t]
              IN  /\ pos # <<>>
                  /\ \A k \in 1..Len(pos) :
                        /\ pos[k] \in 0..(Len(c.names) - 1)
                        /\ Len(t) >= MinQueryLen
                        /\ IsPiece(t, Stem(c.names[pos[k] + 1]))
                  /\ \A k \in 1..(Len(pos) - 1) : pos[k] <= pos[k + 1]
        /\ \A i \in 1..Len(c.names) :
              \A a \in 1..Len(Stem(c.names[i])), b \in 1..Len(Stem(c.names[i])) :
                  LET t == SubSeq(Stem(c.names[i]), a, b)
                  IN  (Len(t) >= MinQueryLen /\ IsPiece(t, Stem(c.names[i])))
                      => /\ t \in DOMAIN c.searchIndex
                         /\ (i - 1) \in Range(c.searchIndex[t])

\* "aa" is indexed for two files, one of them spelled with an upper-case
\* letter
C5_Witness ==
    /\ Published
    /\ <<97, 97>> \in DOMAIN c.searchIndex
    /\ Cardinality(Range(c.searchIndex[<<97, 97>>])) >= 2
    /\ F_Aa_aa \in Range(c.names)

\* the regular files of d whose name ends in ".svg" in any letter case
IconFiles(d) ==
    {n \in DOMAIN d : ~d[n].isDir /\ HasSuffix(ToLower(n), DotSvg)}

\* C6: the directory scan returns the names of the regular files whose
\* extension is ".svg" in any letter case, in byte order, and an error
\* with no list exactly when the directory cannot be listed.
C6_ScanIsCaseInsensitive ==
    [][\A p \in Callers :
          (rb[p].pc = "scan" /\ rb'[p].pc # "scan") =>
              \/ rb'[p].ret = "err" /\ rb'[p].files = <<>>
              \/ /\ rb'[p].pc = "read"
                 /\ Range(rb'[p].files) = IconFiles(dir)
                 /\ StrictlyAscending(rb'[p].files)]_vars

\* the candidates of the request, as the claim C7 states them
C7_Expected(cache, query) ==
    IF query \in DOMAIN cache.searchIndex
    THEN {cache.names[cache.searchIndex[query][k] + 1] :
             k \in 1..Len(cache.searchIndex[query])}
    ELSE {n \in Range(cache.names) : Contains(Stem(n), query)}

\* C7: for a normalized search of length >= 2 the candidates are the names
\* at the positions stored for the key, and for a string that is no key the
\* names whose stem contains it.
C7_SearchCandidates ==
    (resp.status # "none" /\ Len(ToLower(TrimSpace(req.search))) >= MinQueryLen)
    => /\ Range(Candidates(c, req).results)
            = C7_Expected(c, ToLower(TrimSpace(req.search)))
       /\ ~HasPaging(req)
             => Range(resp.files)
                   = C7_Expected(c, ToLower(TrimSpace(req.search)))

\* C8: the search parameter is trimmed and lowercased; a normalized search
\* of length 1 gives no files and total 0, one of length 0 is no search and
\* the files are the whole of names.
C8_SearchNormalization ==
    resp.status # "none" =>
        LET norm == ToLower(TrimSpace(req.search))
            files == Candidates(c, req).results
            total == Len(files)
        IN  /\ SearchQuery(req) = norm
            /\ Len(norm) = 1 =>
                  /\ files = <<>> /\ total = 0
                  /\ ~HasPaging(req) => resp = JSONResponse(<<>>, 1, 0, 0)
                  /\ resp.status = "ok" => resp.files = <<>> /\ resp.total = 0
            /\ Len(norm) = 0 =>
                  /\ files = c.names
                  /\ ~HasPaging(req) =>
                        resp = JSONResponse(c.names, 1, Len(c.names),
                                            Len(c.names))
                  /\ resp.status = "ok" => resp.total = Len(c.names)

\* a search of one letter once trimmed, and a search of blanks only, have
\* been answered from a snapshot with names
C8_Witness ==
    /\ resp.status = "ok"
    /\ c.names # <<>>
    /\ req.search \in {<<32, 66>>, <<32>>}

Min(a, b) == IF a < b THEN a ELSE b

\* C9: with page or limit supplied, files = candidates[start:end] with
\* start = min((page-1)*limit, total), end = min(start+limit, total); the
\* page and the limit are echoed and total is the number of candidates.
C9_Pagination ==
    (resp.status # "none" /\ HasPaging(req)) =>
        LET cand == Candidates(c, req).results
            total == Len(cand)
            start == Min((PageOf(req) - 1) * LimitOf(req), total)
            end == Min(start + LimitOf(req), total)
        IN  resp = JSONResponse(SubSeq(cand, start + 1, end), PageOf(req),
                                LimitOf(req), total)

IsNumeral(s) ==
    LET digits == IF s # <<>> /\ Head(s) \in {43, 45} THEN Tail(s) ELSE s
    IN  digits # <<>> /\ \A k \in 1..Len(digits) : digits[k] \in 48..57

\* the number a numeral denotes
NumeralValue(s) ==
    IF Head(s) = 45 THEN -DigitsValue(Tail(s), 0)
    ELSE IF Head(s) = 43 THEN DigitsValue(Tail(s), 0)
    ELSE DigitsValue(s, 0)

\* the parameter is missing, is no numeral, or denotes no int >= 1
Malformed(param) ==
    \/ ~param.has
    \/ ~IsNumeral(param.str)
    \/ NumeralValue(param.str) < 1
    \/ NumeralValue(param.str) > MaxInt

\* C11: with page or limit supplied, a malformed page is replaced by 1 and a
\* malformed limit by 1000, each whatever the other is, a well-formed one
\* is kept, and the request is answered with a list result.
C11_MalformedPaging ==
    (resp.status # "none" /\ HasPaging(req)
     /\ (Malformed(req.page) \/ Malformed(req.limit))) =>
        /\ PageOf(req) = IF Malformed(req.page) THEN DefaultPage
                         ELSE NumeralValue(req.page.str)
        /\ LimitOf(req) = IF Malformed(req.limit) THEN DefaultLimit
                          ELSE NumeralValue(req.limit.str)
        /\ resp.status = "ok"
        /\ resp.page = PageOf(req)
        /\ resp.limit = LimitOf(req)
        /\ resp.total = Len(Candidates(c, req).results)

\* the elements of a comma-separated header value
RECURSIVE HeaderElements(_, _, _)
HeaderElements(h, i, piece) ==
    IF i > Len(h) THEN {piece}
    ELSE IF h[i] = 44 THEN {piece} \cup HeaderElements(h, i + 1, <<>>)
    ELSE HeaderElements(h, i + 1, Append(piece, h[i]))

\* the request advertises gzip support (RFC 9110, 12.5.3): the header lists
\* the coding gzip, in any letter case, and not with the weight q=0
AdvertisesGzip(header) ==
    \E e \in HeaderElements(header, 1, <<>>) :
        LET t == TrimSpace(ToLower(e))
        IN  \/ t = GzipToken
            \/ /\ HasPrefix(t, GzipToken \o <<59>>)
               /\ TrimSpace(TrimPrefix(t, GzipToken \o <<59>>))
                     \notin {<<113, 61, 48>>, <<113, 61, 48, 46, 48>>}

\* C12: the asset endpoint looks the name up verbatim in the published
\* icons map and answers with the bytes stored for it, or with not-found;
\* for the root path it answers with the published page, compressed exactly
\* if the request advertises gzip support.
C12_AssetEndpoint ==
    resp.status # 0 =>
        IF req.path \in {IconsRoot, IconsBare}
        THEN /\ resp.status = 200
             /\ AdvertisesGzip(req.acceptEncoding) =>
                   resp.body = c.gzippedPage /\ resp.encoding = "gzip"
             /\ ~AdvertisesGzip(req.acceptEncoding) =>
                   resp.body = c.htmlPage /\ resp.encoding = ""
        ELSE LET name == SubSeq(req.path, Len(IconsRoot) + 1, Len(req.path))
             IN  IF name \in DOMAIN c.icons
                 THEN resp.status = 200 /\ resp.body = c.icons[name]
                 ELSE resp.status = 404

\* the lookup, and for the root path one of the two pages of the published
\* snapshot under its own Content-Encoding, whatever the header asks for
AssetLookupAndPage ==
    resp.status # 0 =>
        IF req.path \in {IconsRoot, IconsBare}
        THEN /\ resp.status = 200
             /\ resp.body \in {c.gzippedPage, c.htmlPage}
             /\ resp.encoding = "gzip" <=> resp.body = c.gzippedPage
        ELSE LET name == SubSeq(req.path, Len(IconsRoot) + 1, Len(req.path))
             IN  IF name \in DOMAIN c.icons
                 THEN resp.status = 200 /\ resp.body = c.icons[name]
                 ELSE resp.status = 404

\* a snapshot has been installed and no Rebuild is assigning
Snapshot == Published /\ c.lastUpdated >= 1

\* C13: in every published state, after any sequence of rebuilds,
\* decompressing gzippedPage yields htmlPage of the same state: the two
\* pages come from the same build.
C13_GzipRoundTrip ==
    Snapshot =>
        /\ c.gzippedPage.magic # <<>>
        /\ Gunzip(c.gzippedPage) = c.htmlPage

\* a later Rebuild has installed a page that differs from the first one
C13_Witness ==
    /\ Snapshot
    /\ c.lastUpdated >= 2
    /\ c.htmlPage # RenderPage(<<F_aa_b>>)
    /\ c.gzippedPage.payload # RenderPage(<<F_aa_b>>)

\* the path a client requests when it follows a link (RFC 3986, 3): the
\* reference up to the first "?" or "#"
RECURSIVE LinkPath(_)
LinkPath(href) ==
    IF href = <<>> \/ Head(href) \in {35, 63} THEN <<>>
    ELSE <<Head(href)>> \o LinkPath(Tail(href))

\* the header, the number and order of the entries and their labels are
\* those of names
PageListsNames(cache) ==
    /\ SelectSeq(cache.htmlPage.total, LAMBDA b : b # 44)
          = Itoa(Len(cache.names))
    /\ Len(cache.htmlPage.items) = Len(cache.names)
    /\ \A i \in 1..Len(cache.names) :
          cache.htmlPage.items[i].label = cache.names[i]

\* every published page lists the published names
PageListsPublishedNames == Snapshot => PageListsNames(c)

\* C14: in every published state htmlPage is the rendering of the names of
\* that state: the count in the header, one entry per name in names order,
\* each linking to the asset endpoint for that name (following the link
\* requests that name and is answered with its bytes); an empty directory
\* gives no names, a list total of 0 and a page with no entries.
C14_PageRendersNames ==
    Snapshot =>
        /\ PageListsNames(c)
        /\ \A i \in 1..Len(c.names) :
              LET path == LinkPath(c.htmlPage.items[i].href)
                  answer == iconHandler(c, [path |-> path,
                                            acceptEncoding |-> <<>>])
              IN  /\ path = IconsRoot \o c.names[i]
                  /\ answer.status = 200
                  /\ answer.body = c.icons[c.names[i]]
        /\ c.names = <<>> =>
              /\ c.htmlPage.items = <<>>
              /\ c.htmlPage.total = <<48>>
              /\ listHandler(c, NoRequest).total = 0

\* a request goroutine is running a read operation of the cache
Answering(r) == readers[r].pc # "idle"

\* C15: serving starts only after a first successful build. main goes on
\* to serve only when the startup Rebuild returned nil; when it returned an
\* error the process ends with no watcher started, no request answered and
\* nothing installed; a request is only ever answered by a listening server
\* from a cache on which a snapshot has been installed.
C15_ServeAfterFirstBuild ==
    /\ [](mainPc = "fatal" =>
             /\ c = EmptyCache
             /\ w.outer = "off" /\ w.loop = "off" /\ ~w.subscribed
             /\ \A r \in Readers : ~Answering(r))
    /\ [](w.outer # "off" => mainPc = "serving")
    /\ [](mainPc = "serving" => c.lastUpdated >= 1 /\ NamesAgree(c))
    /\ [](\A r \in Readers :
             Answering(r) => mainPc = "serving" /\ c.lastUpdated >= 1)
    /\ [][/\ mainPc = "fatal" => mainPc' = "fatal"
          /\ (mainPc' = "fatal" /\ mainPc # "fatal") => rb["main"].ret = "err"
          /\ (mainPc' = "serving" /\ mainPc # "serving") =>
                rb["main"].ret = "nil"]_vars

\* the startup Rebuild has failed on a directory that changed under it and
\* the process has ended
C15_Witness ==
    /\ mainPc = "fatal"
    /\ fsOps >= 1
    /\ c = EmptyCache

RECURSIVE SumSeq(_)
SumSeq(q) == IF q = <<>> THEN 0 ELSE Head(q) + SumSeq(Tail(q))

\* the qualifying events that have arrived so far: in WatchSpec the
\* directory is subscribed from the start and every filesystem operation
\* is a create, write or remove of an .svg file
Arrived == fsOps

\* the calls of Rebuild the watcher has made so far
RebuildCalls == SumSeq(windows)

\* C16: a qualifying event delivered while the watcher sleeps or rebuilds
\* is not lost. An event leaves watcher.Events only by being received, a
\* qualifying one starts a debounce delay when it is received, a scan
\* begins only at the end of a delay, and the d-th qualifying event to
\* arrive is eventually followed by the d-th call of Rebuild, whatever the
\* watcher was doing when it arrived.
C16_EventsNotLost ==
    /\ [][/\ events' # events =>
                \/ \E e \in Range(events') : events' = Append(events, e)
                \/ /\ events' = Tail(events)
                   /\ w.loop = "select"
                   /\ Qualifies(Head(events)) => w'.loop = "sleep"
          /\ (rb'["watcher"].pc = "scan" /\ rb["watcher"].pc # "scan") =>
                w.loop = "sleep" /\ w'.loop = "rebuild"]_vars
    /\ \A d \in 1..MaxFsOps : (Arrived >= d) ~> (RebuildCalls >= d)

\* the Rebuild for an event that was delivered during the debounce delay of
\* an earlier one begins its scan
C16_Witness ==
    /\ \E k \in 1..Len(windows) : windows[k] >= 2
    /\ w.loop = "rebuild"
    /\ rb["watcher"].pc = "scan"

\* the callers whose Rebuild is executing
Rebuilding == {p \in Callers : rb[p].pc # "idle"}

\* C17: at most one Rebuild executes at any moment. A Rebuild begins only
\* when none is executing, the watcher's only after startup and at the end
\* of a debounce delay of its loop; the cache lock is free when it begins,
\* so it is not the lock that keeps a second Rebuild out.
C17_OneRebuildAtATime ==
    /\ [](Cardinality(Rebuilding) <= 1)
    /\ [][\A p \in Callers :
             (rb'[p].pc = "scan" /\ rb[p] # rb'[p]) =>
                 /\ Rebuilding = {}
                 /\ mu = UnlockedMu
                 /\ p = "watcher" =>
                       /\ mainPc = "serving"
                       /\ w.loop = "sleep" /\ w'.loop = "rebuild"]_vars

\* the watcher's Rebuild is reading files while a qualifying event waits in
\* watcher.Events
C17_Witness ==
    /\ rb["watcher"].pc = "read"
    /\ rb["watcher"].i >= 1
    /\ events # <<>>
    /\ Qualifies(Head(events))
    /\ mu = UnlockedMu

\* p's Rebuild is scanning the directory, reading files and building the
\* index, or rendering and compressing the page
Building(p) == rb[p].pc \in {"scan", "read", "lock"}

\* C18: the write lock is held only while the fields are assigned. While a
\* Rebuild scans, reads, indexes, renders or compresses, it neither holds
\* the lock nor waits for it, so a reader can take the read lock; whenever
\* the lock is held its holder is at the assignments, and whenever readers
\* are kept out the writer is waiting for readers or assigning.
C18_LockOnlyForAssignments ==
    /\ \A p \in Callers :
          Building(p) => mu.w # p /\ ~mu.held /\ CanRLock(mu)
    /\ mu.held => mu.w \in Callers /\ rb[mu.w].pc = "assign"
    /\ ~CanRLock(mu) => rb[mu.w].pc \in {"lockwait", "assign"}

\* a request holds the read lock while the watcher's Rebuild is between
\* two file reads
C18_Witness ==
    /\ rb["watcher"].pc = "read"
    /\ rb["watcher"].i >= 1
    /\ rb["watcher"].i < Len(rb["watcher"].files)
    /\ \E r \in Readers : readers[r].pc = "locked"

\* Idle -> PendingRebuild -> Rebuilding -> Idle, as positions of the loop
WatcherCycle ==
    {<<"select", "sleep">>, <<"sleep", "rebuild">>, <<"rebuild", "select">>}

\* C19: the watcher goes from waiting to the debounce delay to one Rebuild
\* and back to waiting, whether the Rebuild returned nil or an error; each
\* delay is followed by exactly one call of Rebuild; the loop never stops,
\* every delay and every Rebuild comes to its end, and a qualifying event
\* received by the waiting loop, also after a failed Rebuild, leads to a
\* new Rebuild.
C19_WatcherCycle ==
    /\ [](w.loop \in {"select", "sleep", "rebuild"})
    /\ [][/\ w'.loop # w.loop => <<w.loop, w'.loop>> \in WatcherCycle
          /\ (w.loop = "rebuild" /\ w'.loop = "select") =>
                rb["watcher"].ret \in {"nil", "err"}
          /\ RebuildCalls' # RebuildCalls =>
                /\ RebuildCalls' = RebuildCalls + 1
                /\ w.loop = "sleep" /\ w'.loop = "rebuild"]_vars
    /\ (w.loop = "sleep") ~> (w.loop = "rebuild")
    /\ (w.loop = "rebuild") ~> (w.loop = "select")
    /\ (rb["watcher"].ret = "err") ~> (w.loop = "select")
    /\ (w.loop = "select" /\ events # <<>> /\ Qualifies(Head(events)))
          ~> (rb["watcher"].pc = "scan")

\* the second Rebuild of the watcher begins, for an event that did not
\* arrive during the first delay, after the first Rebuild failed: the
\* snapshot is still the one of startup
C19_Witness ==
    /\ rb["watcher"].pc = "scan"
    /\ Len(windows) = 2
    /\ windows[1] = 1
    /\ w.home = 2
    /\ c.lastUpdated = 1

\* C20: a watcher failure changes no field of the cache and does not stop
\* the serving path. The step in which the watcher cannot be created, the
\* directory cannot be subscribed, an error is reported or received, or
\* the event goroutine returns on a closed channel leaves the cache and
\* main as they are; once the watcher has stopped the cache never changes,
\* the server keeps listening, every request can be answered, and a request
\* issued after the stop is answered from the snapshot still published.
C20_WatcherFailureKeepsServing ==
    /\ [][/\ ((WatcherStopped' /\ ~WatcherStopped) \/ errors' # errors
              \/ w'.closed # w.closed) =>
                 c' = c /\ mainPc' = mainPc /\ mu' = mu
          /\ WatcherStopped => c' = c]_vars
    /\ [](WatcherStopped =>
             /\ mainPc = "serving"
             /\ \A rq \in FailRequests : ENABLED FailRequest(rq))
    /\ [](req.failed =>
             /\ resp = Answer(c, req)
             /\ req.kind = "list" =>
                   resp = JSONResponse(c.names, 1, Len(c.names), Len(c.names))
             /\ (req.kind = "asset" /\ req.q.path = IconsRoot \o F_aa_b
                 /\ F_aa_b \in DOMAIN c.icons) =>
                   resp.status = 200 /\ resp.body = c.icons[F_aa_b])

\* the directory could not be subscribed; afterwards aa-b.svg was removed
\* from the disk, and a request for it issued after that is answered with
\* the bytes of the snapshot
C20_Witness ==
    /\ w.closed
    /\ WatcherStopped
    /\ req.failed
    /\ req.kind = "asset"
    /\ req.q.path = IconsRoot \o F_aa_b
    /\ F_aa_b \notin DOMAIN dir
    /\ resp.status = 200

\* the event is a create, write, remove or rename of a path whose last four
\* bytes are ".svg" in any letter case
TriggerEvent(e) ==
    /\ e.op \in {"Create", "Write", "Remove", "Rename"}
    /\ Len(e.name) >= 4
    /\ \A k \in 1..4 :
          LowerByte(e.name[Len(e.name) - 4 + k]) = DotSvg[k]

\* C21: only qualifying events trigger a rebuild. When the loop receives an
\* event that is no create, write, remove or rename, or whose path does not
\* end in ".svg" in any letter case, the watcher stays waiting, no Rebuild
\* is called and the cache is unchanged; when it receives one of those four
\* kinds on such a path it starts the debounce delay, and the end of a delay
\* is always the call of Rebuild.
C21_OnlyQualifyingEventsTrigger ==
    [][/\ (w.loop = "select" /\ events # <<>> /\ events' = Tail(events)) =>
             IF TriggerEvent(Head(events))
             THEN w'.loop = "sleep" /\ Len(windows') = Len(windows) + 1
             ELSE /\ w' = w /\ rb' = rb /\ c' = c /\ windows' = windows
                  /\ mu' = mu
       /\ (w.loop = "sleep" /\ w' # w) =>
             /\ w'.loop = "rebuild"
             /\ rb'["watcher"].pc = "scan"
             /\ RebuildCalls' = RebuildCalls + 1
       /\ RebuildCalls' # RebuildCalls => w.loop = "sleep"]_vars

\* aa-b.svg has been renamed to n.txt (the only operation so far): the
\* Rename event of aa-b.svg has had its Rebuild, the Create event of n.txt
\* has been received and nothing followed from it
C21_Witness ==
    /\ fsOps = 1
    /\ F_n_txt \in DOMAIN dir
    /\ F_aa_b \notin DOMAIN dir
    /\ events = <<>>
    /\ w.loop = "select"
    /\ windows = <<1>>
    /\ rb["watcher"] = IdleFrame

\* what p's Rebuild has built on its own: the file list of its scan, the
\* maps it made, its page and its compressed page
Built(p) ==
    [icons |-> rb[p].locals.newIcons, names |-> rb[p].files,
     nameIndex |-> rb[p].locals.newNameIndex,
     searchIndex |-> rb[p].locals.newSearchIndex,
     htmlPage |-> rb[p].htmlPage, gzippedPage |-> rb[p].gzipped]

\* C22: a published snapshot is never mutated. A cache field changes only
\* by one assignment of a Rebuild that holds the write lock, and what is
\* assigned is the whole value that this Rebuild built on its own from its
\* scan (never the old value with something written into it); while a
\* Rebuild builds, the cache stays as it is; and no step of a read
\* operation changes a cache field.
C22_SnapshotNeverMutated ==
    [][/\ c' # c =>
             \E p \in Callers :
                 /\ rb[p].pc = "assign" /\ mu.held /\ mu.w = p
                 /\ \E f \in DOMAIN c :
                       /\ \A g \in (DOMAIN c) \ {f} : c'[g] = c[g]
                       /\ f # "lastUpdated" => c'[f] = Built(p)[f]
                       /\ f = "lastUpdated" => c'[f] > c[f]
       /\ \A p \in Callers :
             (Building(p) \/ rb[p].pc = "lockwait") => c' = c
       /\ readers' # readers => c' = c]_vars

\* the watcher's Rebuild has replaced icons and names and not yet the
\* pages, which are still those of the snapshot before, distinct from the
\* ones it built
C22_Witness ==
    /\ rb["watcher"].pc = "assign"
    /\ rb["watcher"].i = 2
    /\ c.lastUpdated >= 1
    /\ c.names = rb["watcher"].files
    /\ c.htmlPage # rb["watcher"].htmlPage
    /\ c.htmlPage.items # <<>>

\* listHandler: start and end as they stand at files[start:end], after the
\* two clamps to total
SliceBounds(total, page, limit) ==
    LET start0 == Wrap((page - 1) * limit)
        end0 == Wrap(start0 + limit)
    IN  [start |-> IF start0 > total THEN total ELSE start0,
         end |-> IF end0 > total THEN total ELSE end0]

\* C23: for every accepted page >= 1 and limit >= 1, up to the largest int,
\* the slice bounds of the list query, computed in wrap-around arithmetic,
\* satisfy 0 <= start <= end <= total, and the request returns a list
\* result.
C23_SliceBoundsInRange ==
    (resp.status # "none" /\ HasPaging(req)) =>
        LET total == Len(Candidates(c, req).results)
            b == SliceBounds(total, PageOf(req), LimitOf(req))
        IN  /\ 0 <= b.start /\ b.start <= b.end /\ b.end <= total
            /\ resp.status = "ok"

\* no element occurs at two positions of s
NoDuplicates(s) ==
    \A i, j \in 1..Len(s) : s[i] = s[j] => i = j

\* C24: the files returned by a search contain each name at most once, and
\* total never exceeds len(names), also when a file name holds the same
\* token twice.
C24_SearchResultsDistinct ==
    (resp.status = "ok" /\ SearchQuery(req) # <<>>) =>
        /\ NoDuplicates(resp.files)
        /\ resp.total <= Len(c.names)

\* listIcons of the previous version: the directory is scanned on every
\* request and a search of two or more bytes keeps the files whose
\* lowercased name without ".svg" contains it; the paging is the same code
listIcons(d, q) ==
    LET searchQuery == SearchQuery(q)
        allFiles == getSortedIconNames(d, TRUE).files
        matches(file) ==
            Contains(TrimSuffix(ToLower(file), DotSvg), searchQuery)
        files == IF Len(searchQuery) > 0 /\ Len(searchQuery) < MinQueryLen
                 THEN <<>>
                 ELSE IF Len(searchQuery) >= MinQueryLen
                      THEN SelectSeq(allFiles, matches)
                      ELSE allFiles
        total == Len(files)
    IN  IF ~HasPaging(q) THEN JSONResponse(files, 1, total, total)
        ELSE Paginate(files, PageOf(q), LimitOf(q))

\* C25: the cached list query answers every request as the uncached list
\* query of the previous version does on the directory content the cache
\* was built from: the same page, limit, total and files.
C25_SameAsUncachedList ==
    (resp.status # "none" /\ c = NewIconCache(dir)) =>
        resp = listIcons(dir, req)

\* the published names are what a scan of the directory returns now, and
\* the published contents are the bytes of the files
Fresh ==
    /\ Published
    /\ c.names = getSortedIconNames(dir, TRUE).files
    /\ DOMAIN c.icons = Range(c.names)
    /\ \A n \in DOMAIN c.icons : Readable(dir, n) /\ c.icons[n] = dir[n].content

\* the scans of the directory the watcher's Rebuilds have made
ScansDone ==
    RebuildCalls - (IF rb["watcher"].pc = "scan" THEN 1 ELSE 0)

WatcherAtRest ==
    /\ mainPc = "serving"
    /\ w.subscribed /\ ~w.closed
    /\ w.loop = "select"
    /\ events = <<>>
    /\ windows = <<>>
    /\ \A p \in Callers : rb[p] = IdleFrame

\* C27: no change is missed at startup. A change of an .svg file made after
\* the startup scan and before the subscription is reflected in the
\* published snapshot even if no further event follows: once the watcher is
\* subscribed and has nothing left to do, the snapshot is that of the
\* directory.
C27_NoChangeMissedAtStartup ==
    WatcherAtRest => Fresh

\* C28: reads are monotonic. What a read operation sees is a published
\* snapshot, which stays as it is while the read lasts; the snapshot
\* changes only by the assignments of a Rebuild; the time of the snapshot
\* never goes back and advances, by the last assignment, only when all
\* other fields are those the Rebuild built; and a Rebuild that completes
\* leaves exactly what it built as the published snapshot. A read that
\* starts later therefore never sees the snapshot of an earlier Rebuild.
C28_MonotonicReads ==
    /\ [](\A r \in Readers : Reading(r) => Published /\ c.lastUpdated >= 1)
    /\ [][/\ c'.lastUpdated >= c.lastUpdated
          /\ (\E r \in Readers : Reading(r)) => c' = c
          /\ (Published /\ Published') => c' = c
          /\ \A p \in Callers :
                /\ (rb[p].pc = "assign" /\ c'.lastUpdated # c.lastUpdated) =>
                      /\ c'.lastUpdated = c.lastUpdated + 1
                      /\ \A f \in DOMAIN Built(p) : c'[f] = Built(p)[f]
                /\ (rb[p].pc = "assign" /\ rb'[p].pc # "assign") =>
                      /\ rb'[p].ret = "nil"
                      /\ c' = c
                      /\ \A f \in DOMAIN Built(p) : c[f] = Built(p)[f]]_vars

\* a reader reads the snapshot of the second Rebuild of the watcher
C28_Witness ==
    /\ \E r \in Readers : readers[r].pc = "locked"
    /\ c.lastUpdated >= 3
    /\ Published
    /\ RebuildCalls >= 2

\* the readers between RLock and RUnlock
Holding == {r \in Readers : readers[r].pc # "idle"}

\* C29: the cache lock never deadlocks. The lock's reader count is the
\* number of read operations between RLock and RUnlock, each of which
\* acquired it once; the write lock is held only by a Rebuild at its
\* assignments, with no reader inside, and a Rebuild that scans, reads
\* files or renders holds nothing; whoever holds the lock can take its next
\* step at once; and under fair scheduling every read operation that has
\* the read lock releases it, and every Rebuild that has reached
\* c.mu.Lock() acquires the lock, installs and returns nil.
C29_LockNeverDeadlocks ==
    /\ [](/\ mu.readers = Cardinality(Holding)
          /\ mu.held => /\ mu.w \in Callers
                        /\ mu.readers = 0
                        /\ rb[mu.w].pc = "assign"
          /\ \A p \in Callers :
                /\ rb[p].pc \in {"lockwait", "assign"} <=> mu.w = p
                /\ rb[p].pc = "assign" => mu.held
          /\ \A r \in Holding : ENABLED ReaderStep(r)
          /\ \A p \in Callers : rb[p].pc = "assign" => ENABLED Rebuild(p))
    /\ \A r \in Readers :
          (readers[r].pc # "idle") ~> (readers[r].pc = "idle")
    /\ \A p \in Callers :
          (rb[p].pc \in {"lock", "lockwait", "assign"}) ~>
              (rb[p].pc = "idle" /\ rb[p].ret = "nil" /\ mu.w = "none")

\* the watcher's Rebuild waits in c.mu.Lock() for a reader that is inside
\* a Search
C29_Witness ==
    /\ rb["watcher"].pc = "lockwait"
    /\ mu.w = "watcher" /\ ~mu.held
    /\ \E r \in Readers : readers[r].pc \in {"collect", "fallback"}

\* C30: for a normalized search string q of two bytes or more, every name
\* Search returns is one of the current names and contains q in its
\* lowercased form, and the names come in the order of names (a name that
\* is returned twice stands next to itself), on the index-hit path and on
\* the substring-fallback path; without paging the list query returns them
\* as they are.
C30_SearchResultsSound ==
    (resp.status # "none" /\ Len(SearchQuery(req)) >= MinQueryLen) =>
        LET q == SearchQuery(req)
            s == Search(c, q)
        IN  /\ ~s.panic
            /\ \A k \in 1..Len(s.results) :
                  /\ s.results[k] \in Range(c.names)
                  /\ Contains(ToLower(s.results[k]), q)
            /\ \A k \in 1..(Len(s.results) - 1) :
                  c.nameIndex[s.results[k]] <= c.nameIndex[s.results[k + 1]]
            /\ ~HasPaging(req) => resp.files = s.results

\* a search answered from the index with two different names
C30_Witness ==
    /\ resp.status = "ok"
    /\ ~HasPaging(req)
    /\ SearchQuery(req) \in DOMAIN c.searchIndex
    /\ \E i, j \in 1..Len(resp.files) : resp.files[i] # resp.files[j]

====
